---- MODULE Spec2Model ----
(***************************************************************************)
(* Model of exchange/gemini.py: the REST client of the Gemini sandbox.     *)
(*                                                                         *)
(* Python values are tagged records: str (a sequence of one-character      *)
(* strings), int, Decimal, bool, None, list (a sequence) and dict (an      *)
(* insertion-ordered sequence of <<key, value>> pairs).  Every module      *)
(* function is an operator returning either [ok |-> TRUE, val |-> v] or    *)
(* [ok |-> FALSE, err |-> <exception class>].                              *)
(***************************************************************************)
EXTENDS Integers, Sequences, FiniteSets, TLC

(***************************************************************************)
(* Bounds of the model.                                                    *)
(***************************************************************************)
\* the first wall-clock reading, in microseconds
ClockStart == 99000
\* the microseconds between two readings, and how many steps are explored
ClockStep == 500
ClockSpan == 2
\* how many withdrawals a FundManager records before the model stops adding
MaxWithdrawals == 1

(***************************************************************************)
(* Text: characters, ASCII codes, decimal numerals.                        *)
(***************************************************************************)
\* the printable ASCII characters, codes 32..126, in code order (code 96,
\* the grave accent, is spelled out: it cannot be written in a TLA+ string)
Ascii ==
  << " ", "!", "\"", "#", "$", "%", "&", "'", "(", ")", "*", "+", ",", "-",
     ".", "/", "0", "1", "2", "3", "4", "5", "6", "7", "8", "9", ":", ";",
     "<", "=", ">", "?", "@", "A", "B", "C", "D", "E", "F", "G", "H", "I",
     "J", "K", "L", "M", "N", "O", "P", "Q", "R", "S", "T", "U", "V", "W",
     "X", "Y", "Z", "[", "\\", "]", "^", "_", "GRAVE", "a", "b", "c", "d", "e",
     "f", "g", "h", "i", "j", "k", "l", "m", "n", "o", "p", "q", "r", "s",
     "t", "u", "v", "w", "x", "y", "z", "{", "|", "}", "~" >>

\* the code of every character
AsciiCode ==
  [c \in { Ascii[i] : i \in 1..Len(Ascii) } |->
     31 + (CHOOSE i \in 1..Len(Ascii) : Ascii[i] = c)]

\* str.encode('utf-8') of one ASCII character
Ord(c) == AsciiCode[c]

\* bytes.decode of one ASCII byte
Chr(n) == Ascii[n - 31]

\* str.encode('utf-8'): the bytes of an ASCII string
Utf8(s) == [i \in 1..Len(s) |-> Ord(s[i])]

Digits == << "0", "1", "2", "3", "4", "5", "6", "7", "8", "9" >>

IsDigit(c) == \E i \in 1..10 : Digits[i] = c

DigitVal(c) == (CHOOSE i \in 1..10 : Digits[i] = c) - 1

\* str(n) for a non-negative int
RECURSIVE IntToStr(_)
IntToStr(n) ==
  IF n < 10 THEN << Digits[n + 1] >>
  ELSE IntToStr(n \div 10) \o << Digits[(n % 10) + 1] >>

\* the value of a numeral (all characters digits)
RECURSIVE StrToInt(_)
StrToInt(s) ==
  IF Len(s) = 0 THEN 0
  ELSE 10 * StrToInt(SubSeq(s, 1, Len(s) - 1)) + DigitVal(s[Len(s)])

\* Python `sub in s` for two strings
IsSubstring(sub, s) ==
  \E i \in 0..(Len(s) - Len(sub)) : SubSeq(s, i + 1, i + Len(sub)) = sub

\* "".join(ss): the two halves are joined, so the nesting grows with the
\* logarithm of the number of pieces
RECURSIVE Concat(_)
Concat(ss) ==
  IF Len(ss) = 0 THEN << >>
  ELSE IF Len(ss) = 1 THEN ss[1]
  ELSE Concat(SubSeq(ss, 1, Len(ss) \div 2))
       \o Concat(SubSeq(ss, Len(ss) \div 2 + 1, Len(ss)))

(***************************************************************************)
(* Python values.                                                          *)
(***************************************************************************)
PStr(s) == [t |-> "str", v |-> s]
PInt(n) == [t |-> "int", v |-> n]
PDec(n) == [t |-> "Decimal", v |-> n]
PBool(b) == [t |-> "bool", v |-> b]
PList(xs) == [t |-> "list", v |-> xs]
PDict(kvs) == [t |-> "dict", v |-> kvs]
PNone == [t |-> "None"]

Ok(v) == [ok |-> TRUE, val |-> v]
Raise(e) == [ok |-> FALSE, err |-> e]

\* `key in d` for a dict
DictHas(d, k) == \E i \in 1..Len(d.v) : d.v[i][1] = k

\* d[key] for a key the dict holds
DictGet(d, k) == d.v[CHOOSE i \in 1..Len(d.v) : d.v[i][1] = k][2]

\* d[key] = value: an existing key keeps its position, a new key is appended
DictSet(d, k, val) ==
  IF DictHas(d, k)
  THEN PDict([i \in 1..Len(d.v) |->
                IF d.v[i][1] = k THEN << k, val >> ELSE d.v[i]])
  ELSE PDict(Append(d.v, << k, val >>))

(***************************************************************************)
(* json.dumps, base64.b64encode, hmac.new(...).hexdigest()                 *)
(***************************************************************************)
\* the JSON escape of one character inside a string literal
JsonEscape(c) ==
  IF c = "\"" THEN << "\\", "\"" >>
  ELSE IF c = "\\" THEN << "\\", "\\" >>
  ELSE << c >>

\* a JSON string literal
JsonString(s) ==
  << "\"" >> \o Concat([i \in 1..Len(s) |-> JsonEscape(s[i])]) \o << "\"" >>

\* ", ".join(parts)
JoinComma(parts) ==
  Concat([i \in 1..Len(parts) |->
            IF i = 1 THEN parts[i] ELSE << ",", " " >> \o parts[i]])

\* json.dumps accepts str, int, bool, None, list and dict; a Decimal is
\* "not JSON serializable"
RECURSIVE JsonSerializable(_)
JsonSerializable(x) ==
  CASE x.t = "Decimal" -> FALSE
    [] x.t = "list" -> \A i \in 1..Len(x.v) : JsonSerializable(x.v[i])
    [] x.t = "dict" -> \A i \in 1..Len(x.v) : JsonSerializable(x.v[i][2])
    [] OTHER -> TRUE

\* the text json.dumps writes for a serializable value (default separators,
\* keys in insertion order)
RECURSIVE JsonText(_)
JsonText(x) ==
  CASE x.t = "str" -> JsonString(x.v)
    [] x.t = "int" -> IntToStr(x.v)
    [] x.t = "bool" -> IF x.v THEN << "t", "r", "u", "e" >>
                       ELSE << "f", "a", "l", "s", "e" >>
    [] x.t = "None" -> << "n", "u", "l", "l" >>
    [] x.t = "list" ->
         << "[" >> \o JoinComma([i \in 1..Len(x.v) |-> JsonText(x.v[i])])
                   \o << "]" >>
    [] x.t = "dict" ->
         << "{" >>
         \o JoinComma([i \in 1..Len(x.v) |->
                         JsonString(x.v[i][1]) \o << ":", " " >>
                         \o JsonText(x.v[i][2])])
         \o << "}" >>

\* json.dumps(parameters)
JsonDumps(x) ==
  IF JsonSerializable(x) THEN Ok(JsonText(x)) ELSE Raise("TypeError")

\* the base64 alphabet, index 0 first
B64Alphabet ==
  << "A", "B", "C", "D", "E", "F", "G", "H", "I", "J", "K", "L", "M", "N",
     "O", "P", "Q", "R", "S", "T", "U", "V", "W", "X", "Y", "Z", "a", "b",
     "c", "d", "e", "f", "g", "h", "i", "j", "k", "l", "m", "n", "o", "p",
     "q", "r", "s", "t", "u", "v", "w", "x", "y", "z", "0", "1", "2", "3",
     "4", "5", "6", "7", "8", "9", "+", "/" >>

B64Char(n) == B64Alphabet[n + 1]

\* base64.b64encode of a sequence of bytes: three bytes make four
\* characters, a last group of one or two bytes is padded with "=".
\* Character k (0..3) of group g (0, 1, ...) is computed from the bytes
\* 3g+1..3g+3, a missing byte counting as 0
B64Encode(bs) ==
  LET byte(i) == IF i <= Len(bs) THEN bs[i] ELSE 0
      sextet(g, k) ==
        CASE k = 0 -> byte(3 * g + 1) \div 4
          [] k = 1 -> (byte(3 * g + 1) % 4) * 16 + byte(3 * g + 2) \div 16
          [] k = 2 -> (byte(3 * g + 2) % 16) * 4 + byte(3 * g + 3) \div 64
          [] k = 3 -> byte(3 * g + 3) % 64
      char(g, k) ==
        IF 3 * g + k > Len(bs) THEN "=" ELSE B64Char(sextet(g, k))
  IN [j \in 1..(4 * ((Len(bs) + 2) \div 3)) |->
        char((j - 1) \div 4, (j - 1) % 4)]

\* hmac.new(key, msg, sha384).hexdigest(): the digest is not computed; it
\* is the term naming the algorithm, the key bytes and the message
HmacSha384Hex(key, msg) == << "hmac-sha384-hex", key, msg >>

(***************************************************************************)
(* String literals of the source, as sequences of characters.              *)
(***************************************************************************)
BASE_URL ==
  << "h", "t", "t", "p", "s", ":", "/", "/", "a", "p", "i", ".", "s", "a",
     "n", "d", "b", "o", "x", ".", "g", "e", "m", "i", "n", "i", ".", "c",
     "o", "m" >>

API_VERSION ==
  << "v", "1" >>

\* the keyring identifiers are opaque names, never taken apart
KEYRING_NAMESPACE == "gemini_sandbox"

KEYRING_API_KEY == "api_key"

KEYRING_API_SECRET == "api_secret"

\* the string literals of the source: field names, symbols, values
Lit ==
  [result |-> << "r", "e", "s", "u", "l", "t" >>,
   error |-> << "e", "r", "r", "o", "r" >>,
   reason |-> << "r", "e", "a", "s", "o", "n" >>,
   message |-> << "m", "e", "s", "s", "a", "g", "e" >>,
   request |-> << "r", "e", "q", "u", "e", "s", "t" >>,
   nonce |-> << "n", "o", "n", "c", "e" >>,
   symbol |-> << "s", "y", "m", "b", "o", "l" >>,
   amount |-> << "a", "m", "o", "u", "n", "t" >>,
   price |-> << "p", "r", "i", "c", "e" >>,
   side |-> << "s", "i", "d", "e" >>,
   type |-> << "t", "y", "p", "e" >>,
   options |-> << "o", "p", "t", "i", "o", "n", "s" >>,
   client_order_id |-> << "c", "l", "i", "e", "n", "t", "_", "o", "r", "d",
        "e", "r", "_", "i", "d" >>,
   order_id |-> << "o", "r", "d", "e", "r", "_", "i", "d" >>,
   exchange |-> << "e", "x", "c", "h", "a", "n", "g", "e" >>,
   avg_execution_price |-> << "a", "v", "g", "_", "e", "x", "e", "c", "u",
        "t", "i", "o", "n", "_", "p", "r", "i", "c", "e" >>,
   timestamp |-> << "t", "i", "m", "e", "s", "t", "a", "m", "p" >>,
   timestampms |-> << "t", "i", "m", "e", "s", "t", "a", "m", "p", "m", "s"
        >>,
   is_live |-> << "i", "s", "_", "l", "i", "v", "e" >>,
   is_cancelled |-> << "i", "s", "_", "c", "a", "n", "c", "e", "l", "l",
        "e", "d" >>,
   executed_amount |-> << "e", "x", "e", "c", "u", "t", "e", "d", "_", "a",
        "m", "o", "u", "n", "t" >>,
   remaining_amount |-> << "r", "e", "m", "a", "i", "n", "i", "n", "g",
        "_", "a", "m", "o", "u", "n", "t" >>,
   original_amount |-> << "o", "r", "i", "g", "i", "n", "a", "l", "_", "a",
        "m", "o", "u", "n", "t" >>,
   buy |-> << "b", "u", "y" >>,
   sell |-> << "s", "e", "l", "l" >>,
   currency |-> << "c", "u", "r", "r", "e", "n", "c", "y" >>,
   available |-> << "a", "v", "a", "i", "l", "a", "b", "l", "e" >>,
   availableForWithdrawal |-> << "a", "v", "a", "i", "l", "a", "b", "l",
        "e", "F", "o", "r", "W", "i", "t", "h", "d", "r", "a", "w", "a",
        "l" >>,
   address |-> << "a", "d", "d", "r", "e", "s", "s" >>,
   tid |-> << "t", "i", "d" >>,
   broken |-> << "b", "r", "o", "k", "e", "n" >>,
   bid |-> << "b", "i", "d" >>,
   ask |-> << "a", "s", "k" >>,
   last |-> << "l", "a", "s", "t" >>,
   volume |-> << "v", "o", "l", "u", "m", "e" >>,
   bids |-> << "b", "i", "d", "s" >>,
   asks |-> << "a", "s", "k", "s" >>,
   limit_bids |-> << "l", "i", "m", "i", "t", "_", "b", "i", "d", "s" >>,
   limit_asks |-> << "l", "i", "m", "i", "t", "_", "a", "s", "k", "s" >>,
   limit_trades |-> << "l", "i", "m", "i", "t", "_", "t", "r", "a", "d",
        "e", "s" >>,
   include_breaks |-> << "i", "n", "c", "l", "u", "d", "e", "_", "b", "r",
        "e", "a", "k", "s" >>,
   btcusd |-> << "b", "t", "c", "u", "s", "d" >>,
   ethusd |-> << "e", "t", "h", "u", "s", "d" >>,
   btc |-> << "b", "t", "c" >>,
   hold |-> << "h", "o", "l", "d" >>,
   symbols |-> << "s", "y", "m", "b", "o", "l", "s" >>,
   orders |-> << "o", "r", "d", "e", "r", "s" >>,
   balances |-> << "b", "a", "l", "a", "n", "c", "e", "s" >>,
   book |-> << "b", "o", "o", "k" >>,
   trades |-> << "t", "r", "a", "d", "e", "s" >>,
   pubticker |-> << "p", "u", "b", "t", "i", "c", "k", "e", "r" >>,
   withdraw |-> << "w", "i", "t", "h", "d", "r", "a", "w" >>,
   exchange_limit |-> << "e", "x", "c", "h", "a", "n", "g", "e", " ", "l",
        "i", "m", "i", "t" >>,
   text_plain |-> << "t", "e", "x", "t", "/", "p", "l", "a", "i", "n" >>,
   no_cache |-> << "n", "o", "-", "c", "a", "c", "h", "e" >>,
   unknown_side |-> << "U", "n", "k", "o", "w", "n", " ", "o", "r", "d",
        "e", "r", " ", "s", "i", "d", "e", ":", " " >>]

\* the endpoint paths of the private calls, as the source spells them
Path ==
  [order_new |-> << "o", "r", "d", "e", "r", "/", "n", "e", "w" >>,
   order_cancel |-> << "o", "r", "d", "e", "r", "/", "c", "a", "n", "c",
        "e", "l" >>,
   order_cancel_session |-> << "o", "r", "d", "e", "r", "/", "c", "a", "n",
        "c", "e", "l", "/", "s", "e", "s", "s", "i", "o", "n" >>,
   orer_cancel_all |-> << "o", "r", "e", "r", "/", "c", "a", "n", "c", "e",
        "l", "/", "a", "l", "l" >>,
   order_status |-> << "o", "r", "d", "e", "r", "/", "s", "t", "a", "t",
        "u", "s" >>]

\* the header names of private_req
Header ==
  [Content_Type |-> << "C", "o", "n", "t", "e", "n", "t", "-", "T", "y",
        "p", "e" >>,
   Content_Length |-> << "C", "o", "n", "t", "e", "n", "t", "-", "L", "e",
        "n", "g", "t", "h" >>,
   APIKEY |-> << "X", "-", "G", "E", "M", "I", "N", "I", "-", "A", "P",
        "I", "K", "E", "Y" >>,
   PAYLOAD |-> << "X", "-", "G", "E", "M", "I", "N", "I", "-", "P", "A",
        "Y", "L", "O", "A", "D" >>,
   SIGNATURE |-> << "X", "-", "G", "E", "M", "I", "N", "I", "-", "S", "I",
        "G", "N", "A", "T", "U", "R", "E" >>,
   Cache_Control |-> << "C", "a", "c", "h", "e", "-", "C", "o", "n", "t",
        "r", "o", "l" >>]

(***************************************************************************)
(* Python built-ins the module relies on.                                  *)
(***************************************************************************)
\* a raised exception that carries its message
RaiseMsg(e, m) == [ok |-> FALSE, err |-> e, msg |-> m]

\* str(x), as '{}'.format(x) and string concatenation use it
PyStr(x) ==
  CASE x.t = "str" -> x.v
    [] x.t = "int" -> IntToStr(x.v)
    [] x.t = "Decimal" -> IntToStr(x.v)
    [] x.t = "bool" -> IF x.v THEN << "T", "r", "u", "e" >>
                       ELSE << "F", "a", "l", "s", "e" >>
    [] x.t = "None" -> << "N", "o", "n", "e" >>

\* `needle in x` for a str needle: key of a dict, element of a list,
\* substring of a str; any other operand is not iterable
PyIn(needle, x) ==
  CASE x.t = "dict" -> Ok(DictHas(x, needle))
    [] x.t = "list" -> Ok(\E i \in 1..Len(x.v) : x.v[i] = PStr(needle))
    [] x.t = "str" -> Ok(IsSubstring(needle, x.v))
    [] OTHER -> Raise("TypeError")

\* x[key] for a str key: only a dict can be indexed by a str
PyGetItem(x, k) ==
  IF x.t = "dict"
  THEN IF DictHas(x, k) THEN Ok(DictGet(x, k)) ELSE Raise("KeyError")
  ELSE Raise("TypeError")

IsNumeral(s) == Len(s) > 0 /\ \A i \in 1..Len(s) : IsDigit(s[i])

\* Decimal(x)
ToDecimal(x) ==
  CASE x.t = "str" ->
         IF IsNumeral(x.v) THEN Ok(PDec(StrToInt(x.v)))
         ELSE Raise("InvalidOperation")
    [] x.t = "int" -> Ok(PDec(x.v))
    [] x.t = "Decimal" -> Ok(x)
    [] x.t = "bool" -> Ok(PDec(IF x.v THEN 1 ELSE 0))
    [] x.t = "None" -> Raise("TypeError")
    [] x.t = "dict" -> Raise("TypeError")
    [] x.t = "list" -> Raise("ValueError")

\* int(x)
ToInt(x) ==
  CASE x.t = "str" ->
         IF IsNumeral(x.v) THEN Ok(PInt(StrToInt(x.v)))
         ELSE Raise("ValueError")
    [] x.t = "int" -> Ok(x)
    [] x.t = "Decimal" -> Ok(PInt(x.v))
    [] x.t = "bool" -> Ok(PInt(IF x.v THEN 1 ELSE 0))
    [] OTHER -> Raise("TypeError")

\* the truth value of x
Truthy(x) ==
  CASE x.t = "None" -> FALSE
    [] x.t = "bool" -> x.v
    [] x.t = "int" -> x.v # 0
    [] x.t = "Decimal" -> x.v # 0
    [] OTHER -> Len(x.v) > 0

\* bool(x)
ToBool(x) == Ok(PBool(Truthy(x)))

\* the values a `for` loop or a comprehension draws from x: the elements
\* of a list, the keys of a dict, the characters of a str
PyIter(x) ==
  CASE x.t = "list" -> Ok(x.v)
    [] x.t = "dict" -> Ok([i \in 1..Len(x.v) |-> PStr(x.v[i][1])])
    [] x.t = "str" -> Ok([i \in 1..Len(x.v) |-> PStr(<< x.v[i] >>)])
    [] OTHER -> Raise("TypeError")

\* str.lower() of one character
LowerChar(c) ==
  IF Ord(c) >= 65 /\ Ord(c) <= 90 THEN Chr(Ord(c) + 32) ELSE c

\* symbol.lower()
Lower(x) == PStr([i \in 1..Len(x.v) |-> LowerChar(x.v[i])])

\* the first failure among a sequence of results, if any
FirstError(rs) ==
  LET bad == { i \in 1..Len(rs) : ~rs[i].ok }
  IN IF bad = {} THEN Ok(PNone)
     ELSE rs[CHOOSE i \in bad : \A j \in bad : i <= j]

(***************************************************************************)
(* The transport and the collaborators.                                    *)
(***************************************************************************)
\* keyring.get_password(namespace, name): the stored string, or None
GetPassword(kr, namespace, name) ==
  IF << namespace, name >> \in DOMAIN kr
  THEN PStr(kr[<< namespace, name >>]) ELSE PNone

\* the arguments of one requests.request call
HttpCall(method, url, headers, params) ==
  [method |-> method, url |-> url, headers |-> headers, params |-> params]

\* requests.request: the exchange's answer, or the transport's exception
RequestsRequest(answer) ==
  IF answer.kind = "response" THEN Ok(answer) ELSE Raise("ConnectionError")

\* json.loads(text): a body is the JSON value it denotes, or not JSON
JsonLoads(text) ==
  IF text.json THEN Ok(text.value) ELSE Raise("JSONDecodeError")

\* what a function that talks to the exchange did: its result, the HTTP
\* calls it issued, the values get_timestamp_ms gave it and the
\* parse_response calls it made
Eff(res, sent, gens, parsed) ==
  [res |-> res, sent |-> sent, gens |-> gens, parsed |-> parsed]

(***************************************************************************)
(* Module-level functions.                                                 *)
(***************************************************************************)
\* int(time.time() * 1000), the wall clock being counted in microseconds
get_timestamp_ms(wall) == wall \div 1000

parse_response(response) ==
  LET loaded == JsonLoads(response.text)
  IN IF ~loaded.ok THEN loaded
     ELSE
       LET data == loaded.val
           has == PyIn(Lit.result, data)
       IN IF ~has.ok THEN has
          ELSE IF ~has.val THEN Ok(data)
          ELSE
            LET marker == PyGetItem(data, Lit.result)
            IN IF ~marker.ok THEN marker
               ELSE IF marker.val # PStr(Lit.error) THEN Ok(data)
               ELSE
                 LET reason == PyGetItem(data, Lit.reason)
                     message == PyGetItem(data, Lit.message)
                 IN IF ~reason.ok THEN reason
                    ELSE IF ~message.ok THEN message
                    ELSE RaiseMsg("RuntimeError",
                                  PyStr(reason.val) \o << ":", " " >>
                                  \o PyStr(message.val))

\* the record of one parse_response call
Parsed(response, out) == [body |-> response.text, out |-> out]

public_req(url_path, parameters, answer) ==
  LET url == BASE_URL \o << "/" >> \o API_VERSION \o << "/" >> \o url_path
      call == HttpCall("GET", url, PNone, parameters)
      response == RequestsRequest(answer)
  IN IF ~response.ok THEN Eff(response, << call >>, << >>, << >>)
     ELSE LET out == parse_response(response.val)
          IN Eff(out, << call >>, << >>, << Parsed(response.val, out) >>)

\* a call of public_req with the positional arguments args: the function
\* has two required parameters
call_public_req(args, answer) ==
  IF Len(args) # 2 THEN Eff(Raise("TypeError"), << >>, << >>, << >>)
  ELSE public_req(args[1], args[2], answer)

\* '/{}/{}'.format(API_VERSION, url_path)
version_path(url_path) == << "/" >> \o API_VERSION \o << "/" >> \o url_path

\* a variant that keeps an entry the caller already set, as
\* parameters.setdefault would
signed_params_setdefault(parameters, path, nonce) ==
  LET first == IF DictHas(parameters, Lit.request) THEN parameters
               ELSE DictSet(parameters, Lit.request, PStr(path))
  IN IF DictHas(first, Lit.nonce) THEN first
     ELSE DictSet(first, Lit.nonce, PInt(nonce))

\* parameters['request'] = version_path; parameters['nonce'] = nonce
signed_params(parameters, path, nonce) ==
  DictSet(DictSet(parameters, Lit.request, PStr(path)), Lit.nonce, PInt(nonce))

\* a variant that sends the length of the payload as Content-Length
signed_headers_payload_length(api_key, b64, signature) ==
  PDict(<< << Header.Content_Type, PStr(Lit.text_plain) >>,
           << Header.Content_Length, PStr(IntToStr(Len(b64))) >>,
           << Header.APIKEY, api_key >>,
           << Header.PAYLOAD, [t |-> "bytes", v |-> b64] >>,
           << Header.SIGNATURE, [t |-> "hexdigest", v |-> signature] >>,
           << Header.Cache_Control, PStr(Lit.no_cache) >> >>)

\* the headers of a private request; b64 is a bytes object and signature
\* the hexdigest string
signed_headers(api_key, b64, signature) ==
  PDict(<< << Header.Content_Type, PStr(Lit.text_plain) >>,
           << Header.Content_Length, PStr(<< "0" >>) >>,
           << Header.APIKEY, api_key >>,
           << Header.PAYLOAD, [t |-> "bytes", v |-> b64] >>,
           << Header.SIGNATURE, [t |-> "hexdigest", v |-> signature] >>,
           << Header.Cache_Control, PStr(Lit.no_cache) >> >>)

private_req(url_path, parameters, w, kr, answer) ==
  LET path == version_path(url_path)
      nonce == get_timestamp_ms(w)
      params == signed_params(parameters, path, nonce)
      param_json == JsonDumps(params)
  IN IF ~param_json.ok THEN Eff(param_json, << >>, << nonce >>, << >>)
     ELSE
       LET b64 == B64Encode(Utf8(param_json.val))
           api_secret == GetPassword(kr, KEYRING_NAMESPACE,
                                     KEYRING_API_SECRET)
       IN IF api_secret.t # "str"
          THEN Eff(Raise("AttributeError"), << >>, << nonce >>, << >>)
          ELSE
            LET signature == HmacSha384Hex(Utf8(api_secret.v), b64)
                api_key == GetPassword(kr, KEYRING_NAMESPACE,
                                       KEYRING_API_KEY)
                headers == signed_headers(api_key, b64, signature)
                url == BASE_URL \o path
                call == HttpCall("POST", url, headers, PNone)
                response == RequestsRequest(answer)
            IN IF ~response.ok
               THEN Eff(response, << call >>, << nonce >>, << >>)
               ELSE LET out == parse_response(response.val)
                    IN Eff(out, << call >>, << nonce >>,
                           << Parsed(response.val, out) >>)

new_order(symbol, amount, price, side, client_id, w, kr, answer) ==
  LET base == PDict(<< << Lit.symbol, PStr(PyStr(symbol)) >>,
                       << Lit.amount, PStr(PyStr(amount)) >>,
                       << Lit.price, PStr(PyStr(price)) >>,
                       << Lit.side, side >>,
                       << Lit.type, PStr(Lit.exchange_limit) >>,
                       << Lit.options, PList(<< >>) >> >>)
      params == IF Truthy(client_id)
                THEN DictSet(base, Lit.client_order_id, client_id)
                ELSE base
  IN private_req(Path.order_new, params, w, kr, answer)

\* ctor(x), ctor being one of "Decimal", "int", "bool" and "" (no
\* constructor)
Construct(ctor, x) ==
  CASE ctor = "Decimal" -> ToDecimal(x)
    [] ctor = "int" -> ToInt(x)
    [] ctor = "bool" -> ToBool(x)
    [] OTHER -> Ok(x)

\* ctor(data[field]) for a field the record has, else None
read_field(data, field, ctor) ==
  IF DictHas(data, field) THEN Construct(ctor, DictGet(data, field))
  ELSE Ok(PNone)

\* ctor(got), got being the outcome of data[field]
Converted(got, ctor) == IF got.ok THEN Construct(ctor, got.val) ELSE got

\* ctor(data[field]) for a field the constructor indexes directly
item(data, field, ctor) == Converted(PyGetItem(data, field), ctor)

(***************************************************************************)
(* Domain records.                                                         *)
(***************************************************************************)
\* the attributes Order.__init__ reads with read_field, in source order:
\* attribute, field of the payload, constructor
OrderFields ==
  << << "amount", Lit.amount, "Decimal" >>,
     << "id", Lit.order_id, "Decimal" >>,
     << "client_id", Lit.client_order_id, "Decimal" >>,
     << "symbol", Lit.symbol, "" >>,
     << "exchange", Lit.exchange, "" >>,
     << "avg_execution_price", Lit.avg_execution_price, "Decimal" >>,
     << "side", Lit.side, "" >>,
     << "type", Lit.type, "" >>,
     << "options", Lit.options, "" >>,
     << "timestamp", Lit.timestamp, "Decimal" >>,
     << "timestamp_ms", Lit.timestampms, "Decimal" >>,
     << "is_live", Lit.is_live, "bool" >>,
     << "is_cancelled", Lit.is_cancelled, "bool" >>,
     << "executed_amount", Lit.executed_amount, "Decimal" >>,
     << "remaining_amount", Lit.remaining_amount, "Decimal" >>,
     << "original_amount", Lit.original_amount, "Decimal" >> >>

\* Order(data): price first, then the read_field lines in order
Order(data) ==
  LET attrs == { OrderFields[i][1] : i \in 1..Len(OrderFields) }
      at(a) == CHOOSE i \in 1..Len(OrderFields) : OrderFields[i][1] = a
      made(price, read) ==
        IF ~price.ok THEN price
        ELSE IF ~FirstError(read).ok THEN FirstError(read)
        ELSE Ok([a \in attrs \cup { "price" } |->
                   IF a = "price" THEN price.val ELSE read[at(a)].val])
  IN made(item(data, Lit.price, "Decimal"),
          [i \in 1..Len(OrderFields) |->
             read_field(data, OrderFields[i][2], OrderFields[i][3])])

\* Trade(data)
Trade(data) ==
  LET made(conv) ==
        IF ~FirstError(conv).ok THEN FirstError(conv)
        ELSE Ok([timestamp |-> conv[1].val, timestampms |-> conv[2].val,
                 id |-> conv[3].val, price |-> conv[4].val,
                 amount |-> conv[5].val, exchange |-> conv[6].val,
                 type |-> conv[7].val,
                 broken |-> read_field(data, Lit.broken, "bool").val])
  IN made(<< item(data, Lit.timestamp, "Decimal"),
             item(data, Lit.timestampms, "Decimal"),
             item(data, Lit.tid, "int"),
             item(data, Lit.price, "Decimal"),
             item(data, Lit.amount, "Decimal"),
             item(data, Lit.exchange, ""),
             item(data, Lit.type, "") >>)

\* Volume(data): a str payload is decoded first (the strings of this model
\* are numerals or not JSON at all), and only a dict has items()
Volume(data) ==
  LET isTs(i) == data.v[i][1] = Lit.timestamp
      stamps == { i \in 1..Len(data.v) : isTs(i) }
      made(conv) ==
        IF ~FirstError(conv).ok THEN FirstError(conv)
        ELSE Ok([symbols |->
                   PDict(SelectSeq([i \in 1..Len(data.v) |->
                                      << data.v[i][1], conv[i].val,
                                         isTs(i) >>],
                                   LAMBDA e : ~e[3])),
                 timestamp |->
                   IF stamps = {} THEN [t |-> "unset"]
                   ELSE conv[CHOOSE i \in stamps : TRUE].val])
  IN IF data.t = "str" /\ ~IsNumeral(data.v) THEN Raise("JSONDecodeError")
     ELSE IF data.t # "dict" THEN Raise("AttributeError")
     ELSE made([i \in 1..Len(data.v) |-> ToDecimal(data.v[i][2])])

\* TickerStatus(data)
TickerStatus(data) ==
  LET made(conv, volume) ==
        IF ~FirstError(conv).ok THEN FirstError(conv)
        ELSE IF ~volume.ok THEN volume
        ELSE Ok([bid |-> conv[1].val, ask |-> conv[2].val,
                 last_price |-> conv[3].val, volume |-> volume.val])
  IN made(<< item(data, Lit.bid, "Decimal"), item(data, Lit.ask, "Decimal"),
             item(data, Lit.last, "Decimal") >>,
          IF DictHas(data, Lit.volume) THEN Volume(DictGet(data, Lit.volume))
          ELSE Ok(PNone))

\* CurrencyBalance(data)
CurrencyBalance(data) ==
  LET made(conv) ==
        IF ~FirstError(conv).ok THEN FirstError(conv)
        ELSE Ok([currency |-> conv[1].val, amount |-> conv[2].val,
                 available |-> conv[3].val, withdrawable |-> conv[4].val])
  IN made(<< item(data, Lit.currency, ""),
             item(data, Lit.amount, "Decimal"),
             item(data, Lit.available, "Decimal"),
             item(data, Lit.availableForWithdrawal, "Decimal") >>)

\* [ctor(entry) for entry in data], ctor one of "Order", "Trade" and
\* "CurrencyBalance": the list, or the first exception
Comprehension(ctor, data) ==
  LET list(made) ==
        IF ~FirstError(made).ok THEN FirstError(made)
        ELSE Ok([i \in 1..Len(made) |-> made[i].val])
      each(entries) ==
        IF ~entries.ok THEN entries
        ELSE list([i \in 1..Len(entries.val) |->
                     CASE ctor = "Order" -> Order(entries.val[i])
                       [] ctor = "Trade" -> Trade(entries.val[i])
                       [] ctor = "CurrencyBalance" ->
                            CurrencyBalance(entries.val[i])])
  IN each(PyIter(data))

(***************************************************************************)
(* State.                                                                  *)
(***************************************************************************)
VARIABLES
  wall,      \* the wall clock time.time() reads, in microseconds
  keyring,   \* the entries of the system keyring
  tm,        \* a TradeManager
  fm,        \* a FundManager
  ticker,    \* a Ticker
  history,   \* a TradeHistory
  symbols,   \* the Symbols object, None while none was constructed
  outcome    \* the last call: what it did and how it ended

vars == << wall, keyring, tm, fm, ticker, history, symbols, outcome >>

\* OrderBook(symbol)
OrderBook(symbol) ==
  [symbol |-> symbol, limit_bids |-> PInt(50), limit_asks |-> PInt(50),
   bids |-> PNone, asks |-> PNone, last_request_ts |-> PNone]

\* an empty OrderedDict
OrderedDict == PDict(<< >>)

\* TradeManager(symbol)
TradeManager(symbol) ==
  [order_book |-> OrderBook(symbol), symbol |-> symbol,
   buy_orders |-> OrderedDict, sell_orders |-> OrderedDict]

\* FundManager()
FundManager ==
  [balances |-> PNone, last_update |-> PNone, withdrawals |-> << >>]

\* Ticker(symbol): last_trade is not an attribute until update sets it
Ticker(symbol) ==
  [symbol |-> Lower(symbol), last_request_ts |-> PNone,
   last_status |-> PNone, last_trade |-> [t |-> "unset"]]

\* TradeHistory(symbol)
TradeHistory(symbol) ==
  [symbol |-> symbol, limit_trades |-> PInt(50),
   include_breaks |-> PBool(FALSE), last_request_ts |-> PNone,
   trades |-> PNone]

\* the record of a call: the operation and its arguments, whether it
\* returned, the exception class if it raised, its HTTP calls, the
\* timestamps it drew, its parse_response calls and the value it returned
Outcome(op, args, eff, res, ret) ==
  [op |-> op, args |-> args, ok |-> res.ok,
   err |-> IF res.ok THEN "" ELSE res.err,
   sent |-> eff.sent, gens |-> eff.gens, parsed |-> eff.parsed,
   ret |-> IF res.ok THEN ret ELSE PNone]

\* a keyring holding both credentials of the namespace
FullKeyring ==
  (<< KEYRING_NAMESPACE, KEYRING_API_KEY >> :> << "k" >>)
  @@ (<< KEYRING_NAMESPACE, KEYRING_API_SECRET >> :> << "s", "c" >>)

\* the keyrings a process may find: each entry present or absent
Keyrings ==
  { [e \in D |-> FullKeyring[e]] : D \in SUBSET (DOMAIN FullKeyring) }

(***************************************************************************)
(* TradeManager.                                                           *)
(***************************************************************************)
\* container[key] = value for a key that is a Decimal or None: an
\* OrderedDict takes it, a list accepts only integer indices
SetItem(container, key, value) ==
  IF container.t = "dict" THEN Ok(DictSet(container, key, value))
  ELSE Raise("TypeError")

\* TradeManager._update_order: the exception if any, and the manager after
_update_order(self, order) ==
  IF order.symbol # self.symbol THEN [res |-> Ok(PNone), self |-> self]
  ELSE IF order.side = PStr(Lit.buy) THEN
    LET set == SetItem(self.buy_orders, order.id, order)
    IN [res |-> set,
        self |-> IF set.ok THEN [self EXCEPT !.buy_orders = set.val]
                 ELSE self]
  ELSE IF order.side = PStr(Lit.sell) THEN
    LET set == SetItem(self.sell_orders, order.id, order)
    IN [res |-> set,
        self |-> IF set.ok THEN [self EXCEPT !.sell_orders = set.val]
                 ELSE self]
  ELSE IF order.side.t = "str"
  THEN [res |-> RaiseMsg("RuntimeError", Lit.unknown_side \o order.side.v),
        self |-> self]
  ELSE [res |-> Raise("TypeError"), self |-> self]

\* TradeManager.place_buy / place_sell, side being "buy" or "sell"
place_order(self, side, amount, price, w, kr, answer) ==
  LET book == IF side = Lit.buy THEN self.buy_orders ELSE self.sell_orders
      stored(eff, order, set) ==
        IF ~set.ok THEN [eff |-> eff, res |-> set, self |-> self]
        ELSE [eff |-> eff, res |-> order,
              self |-> IF side = Lit.buy
                       THEN [self EXCEPT !.buy_orders = set.val]
                       ELSE [self EXCEPT !.sell_orders = set.val]]
      built(eff, order) ==
        IF ~order.ok THEN [eff |-> eff, res |-> order, self |-> self]
        ELSE stored(eff, order, SetItem(book, order.val.id, order.val))
      answered(eff) ==
        IF ~eff.res.ok THEN [eff |-> eff, res |-> eff.res, self |-> self]
        ELSE built(eff, Order(eff.res.val))
  IN answered(new_order(self.symbol, amount, price, PStr(side), PNone,
                        w, kr, answer))

\* TradeManager.cancel / get_order_status, url_path being the endpoint
order_request(self, url_path, arg, w, kr, answer) ==
  LET updated(eff, order, upd) ==
        [eff |-> eff, res |-> IF upd.res.ok THEN order ELSE upd.res,
         self |-> upd.self]
      built(eff, order) ==
        IF ~order.ok THEN [eff |-> eff, res |-> order, self |-> self]
        ELSE updated(eff, order, _update_order(self, order.val))
      answered(eff) ==
        IF ~eff.res.ok THEN [eff |-> eff, res |-> eff.res, self |-> self]
        ELSE built(eff, Order(eff.res.val))
  IN answered(private_req(url_path, PDict(<< << Lit.order_id, arg.id >> >>),
                          w, kr, answer))

\* TradeManager.cancel_session / cancel_all, url_path being the endpoint
cancel_orders(self, url_path, w, kr, answer) ==
  LET answered(eff) ==
        IF ~eff.res.ok THEN [eff |-> eff, res |-> eff.res, self |-> self]
        ELSE [eff |-> eff, res |-> Ok(PNone),
              self |-> [self EXCEPT !.buy_orders = PList(<< >>),
                                    !.sell_orders = PList(<< >>)]]
  IN answered(private_req(url_path, PDict(<< >>), w, kr, answer))

\* the loop of get_active_orders over the entries left, result holding the
\* orders appended so far
RECURSIVE active_orders_loop(_, _, _)
active_orders_loop(self, entries, result) ==
  LET updated(order, upd) ==
        IF ~upd.res.ok THEN [res |-> upd.res, self |-> upd.self]
        ELSE active_orders_loop(upd.self, Tail(entries),
                                Append(result, order.val))
      built(order) ==
        IF ~order.ok THEN [res |-> order, self |-> self]
        ELSE updated(order, _update_order(self, order.val))
  IN IF Len(entries) = 0 THEN [res |-> Ok(PList(result)), self |-> self]
     ELSE built(Order(Head(entries)))

\* TradeManager.get_active_orders
get_active_orders(self, w, kr, answer) ==
  LET looped(eff, done) ==
        [eff |-> eff, res |-> done.res, self |-> done.self]
      iterated(eff, entries) ==
        IF ~entries.ok THEN [eff |-> eff, res |-> entries, self |-> self]
        ELSE looped(eff, active_orders_loop(self, entries.val, << >>))
      answered(eff) ==
        IF ~eff.res.ok THEN [eff |-> eff, res |-> eff.res, self |-> self]
        ELSE iterated(eff, PyIter(eff.res.val))
  IN answered(private_req(Lit.orders, PDict(<< >>), w, kr, answer))

\* the Order list of data[field], as update builds it
order_list(data, field) ==
  LET listed(raw) ==
        IF raw.ok THEN Comprehension("Order", raw.val) ELSE raw
  IN listed(PyGetItem(data, field))

\* OrderBook.update
OrderBook_update(self, w, answer) ==
  LET ts == get_timestamp_ms(w)
      stamped == [self EXCEPT !.last_request_ts = PInt(ts)]
      params == PDict(<< << Lit.limit_bids, self.limit_bids >>,
                         << Lit.limit_asks, self.limit_asks >> >>)
      asked(eff, bids, asks) ==
        IF ~asks.ok
        THEN [eff |-> eff, res |-> asks,
              self |-> [stamped EXCEPT !.bids = PList(bids.val)]]
        ELSE [eff |-> eff, res |-> Ok(PNone),
              self |-> [stamped EXCEPT !.bids = PList(bids.val),
                                       !.asks = PList(asks.val)]]
      bid(eff, bids) ==
        IF ~bids.ok THEN [eff |-> eff, res |-> bids, self |-> stamped]
        ELSE asked(eff, bids, order_list(eff.res.val, Lit.asks))
      answered(eff) ==
        IF ~eff.res.ok THEN [eff |-> eff, res |-> eff.res, self |-> stamped]
        ELSE bid(eff, order_list(eff.res.val, Lit.bids))
      timed(req) == answered(Eff(req.res, req.sent, << ts >>, req.parsed))
  IN timed(call_public_req(<< Lit.book \o << "/" >> \o PyStr(self.symbol),
                              params >>, answer))

(***************************************************************************)
(* FundManager, Ticker, TradeHistory, Symbols.                             *)
(***************************************************************************)
\* FundManager.get_balances
get_balances(self, w, kr, answer) ==
  LET ts == get_timestamp_ms(w)
      stamped == [self EXCEPT !.last_update = PInt(ts)]
      listed(eff, made) ==
        IF ~made.ok THEN [eff |-> eff, res |-> made, self |-> stamped]
        ELSE [eff |-> eff, res |-> Ok(PList(made.val)),
              self |-> [stamped EXCEPT !.balances = PList(made.val)]]
      answered(eff) ==
        IF ~eff.res.ok THEN [eff |-> eff, res |-> eff.res, self |-> stamped]
        ELSE listed(eff, Comprehension("CurrencyBalance", eff.res.val))
      timed(req) ==
        answered(Eff(req.res, req.sent, << ts >> \o req.gens, req.parsed))
  IN timed(private_req(Lit.balances, PDict(<< >>), w, kr, answer))

\* FundManager.withdraw
withdraw(self, address, currency, amount, w, kr, answer) ==
  LET params == PDict(<< << Lit.address, address >>,
                         << Lit.amount, amount >> >>)
      answered(eff) ==
        IF ~eff.res.ok THEN [eff |-> eff, res |-> eff.res, self |-> self]
        ELSE [eff |-> eff, res |-> eff.res,
              self |-> [self EXCEPT
                          !.withdrawals = Append(@, eff.res.val)]]
  IN answered(private_req(Lit.withdraw \o << "/" >> \o PyStr(currency),
                          params, w, kr, answer))

\* Ticker.update: public_req is called with the path alone
Ticker_update(self, w, answer) ==
  LET ts == get_timestamp_ms(w)
      stamped == [self EXCEPT !.last_request_ts = PInt(ts)]
      built(eff, status) ==
        IF ~status.ok THEN [eff |-> eff, res |-> status, self |-> stamped]
        ELSE [eff |-> eff, res |-> status,
              self |-> [stamped EXCEPT !.last_trade = status.val]]
      answered(eff) ==
        IF ~eff.res.ok THEN [eff |-> eff, res |-> eff.res, self |-> stamped]
        ELSE built(eff, TickerStatus(eff.res.val))
      timed(req) == answered(Eff(req.res, req.sent, << ts >>, req.parsed))
  IN timed(call_public_req(<< Lit.pubticker \o << "/" >>
                              \o PyStr(self.symbol) >>, answer))

\* TradeHistory.update(timestamp)
TradeHistory_update(self, timestamp, w, answer) ==
  LET ts == get_timestamp_ms(w)
      stamped == [self EXCEPT !.last_request_ts = PInt(ts)]
      base == PDict(<< << Lit.limit_trades, self.limit_trades >>,
                       << Lit.include_breaks,
                          IF Truthy(self.include_breaks)
                          THEN PStr(<< "1" >>) ELSE PStr(<< "0" >>) >> >>)
      params == IF Truthy(timestamp)
                THEN DictSet(base, Lit.timestamp, timestamp) ELSE base
      listed(eff, made) ==
        IF ~made.ok THEN [eff |-> eff, res |-> made, self |-> stamped]
        ELSE [eff |-> eff, res |-> Ok(PNone),
              self |-> [stamped EXCEPT !.trades = PList(made.val)]]
      answered(eff) ==
        IF ~eff.res.ok THEN [eff |-> eff, res |-> eff.res, self |-> stamped]
        ELSE listed(eff, Comprehension("Trade", eff.res.val))
      timed(req) == answered(Eff(req.res, req.sent, << ts >>, req.parsed))
  IN timed(call_public_req(<< Lit.trades \o << "/" >>
                              \o PyStr(self.symbol), params >>, answer))

\* Symbols(): public_req is called with the path alone, and its result is
\* then read as a response (.text), which no decoded value has
Symbols_init(answer) ==
  LET answered(eff) ==
        IF ~eff.res.ok THEN [eff |-> eff, res |-> eff.res]
        ELSE [eff |-> eff, res |-> Raise("AttributeError")]
  IN answered(call_public_req(<< Lit.symbols >>, answer))

(***************************************************************************)
(* The exchange's answers and the callers' arguments.                      *)
(***************************************************************************)
\* a response whose body is the JSON text of v
Json(v) == [kind |-> "response", text |-> [json |-> TRUE, value |-> v]]

\* a response whose body is not JSON
NotJson == [kind |-> "response", text |-> [json |-> FALSE]]

\* no response: the transport raises
NoAnswer == [kind |-> "error"]

\* {"result": "error", "reason": "Bad", "message": "no"}
ErrorEnvelope ==
  PDict(<< << Lit.result, PStr(Lit.error) >>,
           << Lit.reason, PStr(<< "B", "a", "d" >>) >>,
           << Lit.message, PStr(<< "n", "o" >>) >> >>)

\* {"result": "error"}: the marker without reason and message
BareEnvelope == PDict(<< << Lit.result, PStr(Lit.error) >> >>)

\* an order as the exchange reports it
OrderJson(id, symbol, side) ==
  PDict(<< << Lit.order_id, PStr(id) >>, << Lit.symbol, PStr(symbol) >>,
           << Lit.side, PStr(side) >>, << Lit.price, PStr(<< "7" >>) >> >>)

BuyOne == OrderJson(<< "1" >>, Lit.btcusd, Lit.buy)

SellOne == OrderJson(<< "1" >>, Lit.btcusd, Lit.sell)

SellTwo == OrderJson(<< "2" >>, Lit.btcusd, Lit.sell)

BuyOther == OrderJson(<< "2" >>, Lit.ethusd, Lit.buy)

HoldTwo == OrderJson(<< "2" >>, Lit.btcusd, Lit.hold)

\* an order book level: price and amount only
LevelJson == PDict(<< << Lit.price, PStr(<< "7" >>) >>,
                      << Lit.amount, PStr(<< "2" >>) >> >>)

BalanceJson ==
  PDict(<< << Lit.currency, PStr(Lit.btc) >>, << Lit.amount, PStr(<< "3" >>) >>,
           << Lit.available, PStr(<< "2" >>) >>,
           << Lit.availableForWithdrawal, PStr(<< "1" >>) >> >>)

TradeJson ==
  PDict(<< << Lit.timestamp, PInt(9) >>, << Lit.timestampms, PInt(9000) >>,
           << Lit.tid, PInt(4) >>, << Lit.price, PStr(<< "7" >>) >>,
           << Lit.amount, PStr(<< "2" >>) >>, << Lit.exchange, PStr(Lit.btc) >>,
           << Lit.type, PStr(Lit.buy) >> >>)

TickerJson ==
  PDict(<< << Lit.bid, PStr(<< "6" >>) >>, << Lit.ask, PStr(<< "8" >>) >>,
           << Lit.last, PStr(<< "7" >>) >> >>)

BookJson ==
  PDict(<< << Lit.bids, PList(<< LevelJson >>) >>,
           << Lit.asks, PList(<< LevelJson >>) >> >>)

\* bodies that exercise every branch of parse_response
ParseBodies ==
  { Json(ErrorEnvelope), Json(BareEnvelope), Json(TickerJson),
    Json(PDict(<< << Lit.result, PStr(Lit.btc) >> >>)),
    Json(PList(<< >>)), Json(PList(<< PStr(Lit.result) >>)),
    Json(PStr(Lit.result)), Json(PStr(Lit.btc)), Json(PInt(5)), Json(PNone),
    NotJson }

\* parameter sets a direct caller of private_req hands over: empty, with
\* entries named request and nonce of its own, with a Decimal, with a
\* quote and a backslash in a value
CallerParams ==
  { PDict(<< >>),
    PDict(<< << Lit.nonce, PInt(0) >>, << Lit.request, PStr(Lit.btc) >>,
             << Lit.amount, PStr(<< "2" >>) >> >>),
    PDict(<< << Lit.order_id, PDec(1) >> >>),
    PDict(<< << Lit.address, PStr(<< "a", "\"", "\\" >>) >> >>) }

\* the answers a direct call of private_req or new_order gets
CoreAnswers == { Json(BuyOne), Json(ErrorEnvelope), Json(PInt(5)), NoAnswer }

\* the answers to order/new, buy side and sell side
BuyAnswers == { Json(BuyOne), Json(SellOne), Json(ErrorEnvelope) }

SellAnswers == { Json(SellTwo), Json(ErrorEnvelope) }

\* the answers to order/cancel and order/status
OrderAnswers == { Json(BuyOne), Json(BuyOther), NotJson }

\* the answers to order/cancel/session and order/cancel/all
CancelAnswers == { Json(PDict(<< << Lit.result, PStr(<< "o", "k" >>) >> >>)),
                   Json(ErrorEnvelope) }

\* the answers to orders
ActiveOrdersAnswers ==
  { Json(PList(<< BuyOne, SellTwo >>)), Json(PList(<< SellTwo, HoldTwo >>)),
    NoAnswer }

\* the answers to balances and withdraw
FundAnswers ==
  { Json(PList(<< BalanceJson >>)), Json(PList(<< BalanceJson, BuyOne >>)),
    Json(ErrorEnvelope), NoAnswer }

PublicAnswers ==
  { Json(TickerJson), Json(BookJson), Json(PList(<< TradeJson >>)),
    Json(PList(<< TradeJson, LevelJson >>)),
    Json(PDict(<< << Lit.bids, PList(<< LevelJson >>) >> >>)),
    Json(PList(<< >>)), Json(ErrorEnvelope), NotJson, NoAnswer }

\* the orders a caller holds: the ones the manager recorded, and one the
\* exchange reported without an id
OrderArgs(self) ==
  { self.buy_orders.v[i][2] : i \in 1..Len(self.buy_orders.v) }
  \cup { self.sell_orders.v[i][2] : i \in 1..Len(self.sell_orders.v) }
  \cup { Order(LevelJson).val }

(***************************************************************************)
(* Initial state and actions.                                              *)
(***************************************************************************)
NoCall ==
  [op |-> "", args |-> << >>, ok |-> TRUE, err |-> "", sent |-> << >>,
   gens |-> << >>,
   parsed |-> << >>, ret |-> PNone]

\* the state after construction, the keyring being one of krs
Start(krs) ==
  /\ wall = ClockStart
  /\ keyring \in krs
  /\ tm = TradeManager(PStr(Lit.btcusd))
  /\ fm = FundManager
  /\ ticker = Ticker(PStr(Lit.btcusd))
  /\ history = TradeHistory(PStr(Lit.btcusd))
  /\ symbols = PNone
  /\ outcome = NoCall

Init == Start(Keyrings)

\* time passes
Tick ==
  /\ wall < ClockStart + ClockSpan * ClockStep
  /\ wall' = wall + ClockStep
  /\ UNCHANGED << keyring, tm, fm, ticker, history, symbols, outcome >>

\* the wall clock is set back (an NTP step, an operator's correction)
StepBack ==
  /\ \E k \in 1..ClockSpan :
       /\ wall - k * ClockStep >= ClockStart
       /\ wall' = wall - k * ClockStep
  /\ UNCHANGED << keyring, tm, fm, ticker, history, symbols, outcome >>

\* a direct call of get_timestamp_ms()
GetTimestampMs ==
  /\ outcome' = Outcome("get_timestamp_ms", << >>,
                        Eff(Ok(PNone), << >>, << get_timestamp_ms(wall) >>,
                            << >>),
                        Ok(PNone), PInt(get_timestamp_ms(wall)))
  /\ UNCHANGED << wall, keyring, tm, fm, ticker, history, symbols >>

\* the record of a call of a function that returns res or raises it
Returned(op, args, eff, res) ==
  Outcome(op, args, eff, res, IF res.ok THEN res.val ELSE PNone)

\* a direct call of parse_response(response)
ParseResponse(response) ==
  /\ LET done(out) ==
           Returned("parse_response", << response >>,
                    Eff(out, << >>, << >>, << Parsed(response, out) >>), out)
     IN outcome' = done(parse_response(response))
  /\ UNCHANGED << wall, keyring, tm, fm, ticker, history, symbols >>

\* the step of a module-level function called with args whose run is eff
FunctionStep(op, args, eff) ==
  /\ outcome' = Returned(op, args, eff, eff.res)
  /\ UNCHANGED << wall, keyring, tm, fm, ticker, history, symbols >>

\* a direct call of public_req(url_path, parameters)
PublicReq(url_path, parameters, answer) ==
  FunctionStep("public_req", << PStr(url_path), parameters >>,
               call_public_req(<< url_path, parameters >>, answer))

\* a direct call of private_req(url_path, parameters)
PrivateReq(url_path, parameters, answer) ==
  FunctionStep("private_req", << PStr(url_path), parameters >>,
               private_req(url_path, parameters, wall, keyring, answer))

\* a direct call of new_order(symbol, amount, price, side, client_id)
NewOrder(symbol, amount, price, side, client_id, answer) ==
  FunctionStep("new_order", << symbol, amount, price, side, client_id >>,
               new_order(symbol, amount, price, side, client_id, wall,
                         keyring, answer))

\* the step of a TradeManager method called with args whose run is r
TradeStep(op, args, r) ==
  /\ tm' = r.self
  /\ outcome' = Returned(op, args, r.eff, r.res)
  /\ UNCHANGED << wall, keyring, fm, ticker, history, symbols >>

PlaceBuy(amount, price, answer) ==
  TradeStep("place_buy", << amount, price >>,
            place_order(tm, Lit.buy, amount, price, wall, keyring, answer))

PlaceSell(amount, price, answer) ==
  TradeStep("place_sell", << amount, price >>,
            place_order(tm, Lit.sell, amount, price, wall, keyring, answer))

Cancel(order, answer) ==
  TradeStep("cancel", << order >>,
            order_request(tm, Path.order_cancel, order, wall, keyring,
                          answer))

CancelSession(answer) ==
  TradeStep("cancel_session", << >>,
            cancel_orders(tm, Path.order_cancel_session, wall, keyring,
                          answer))

CancelAll(answer) ==
  TradeStep("cancel_all", << >>,
            cancel_orders(tm, Path.orer_cancel_all, wall, keyring, answer))

GetOrderStatus(order, answer) ==
  TradeStep("get_order_status", << order >>,
            order_request(tm, Path.order_status, order, wall, keyring,
                          answer))

GetActiveOrders(answer) ==
  TradeStep("get_active_orders", << >>,
            get_active_orders(tm, wall, keyring, answer))

\* tm.order_book.update()
OrderBookUpdate(answer) ==
  /\ LET done(r) ==
           /\ tm' = [tm EXCEPT !.order_book = r.self]
           /\ outcome' = Outcome("OrderBook.update", << >>, r.eff, r.res,
                                 PNone)
     IN done(OrderBook_update(tm.order_book, wall, answer))
  /\ UNCHANGED << wall, keyring, fm, ticker, history, symbols >>

\* the step of a FundManager method called with args whose run is r
FundStep(op, args, r) ==
  /\ fm' = r.self
  /\ outcome' = Returned(op, args, r.eff, r.res)
  /\ UNCHANGED << wall, keyring, tm, ticker, history, symbols >>

GetBalances(answer) ==
  FundStep("get_balances", << >>, get_balances(fm, wall, keyring, answer))

Withdraw(address, currency, amount, answer) ==
  /\ Len(fm.withdrawals) < MaxWithdrawals
  /\ FundStep("withdraw", << address, currency, amount >>,
              withdraw(fm, address, currency, amount, wall, keyring, answer))

TickerUpdate(answer) ==
  /\ LET done(r) ==
           /\ ticker' = r.self
           /\ outcome' = Returned("Ticker.update", << >>, r.eff, r.res)
     IN done(Ticker_update(ticker, wall, answer))
  /\ UNCHANGED << wall, keyring, tm, fm, history, symbols >>

TradeHistoryUpdate(timestamp, answer) ==
  /\ LET done(r) ==
           /\ history' = r.self
           /\ outcome' = Outcome("TradeHistory.update", << timestamp >>,
                                 r.eff, r.res, PNone)
     IN done(TradeHistory_update(history, timestamp, wall, answer))
  /\ UNCHANGED << wall, keyring, tm, fm, ticker, symbols >>

SymbolsInit(answer) ==
  /\ LET done(r) ==
           /\ symbols' = IF r.res.ok THEN r.res.val ELSE symbols
           /\ outcome' = Outcome("Symbols", << >>, r.eff, r.res, PNone)
     IN done(Symbols_init(answer))
  /\ UNCHANGED << wall, keyring, tm, fm, ticker, history >>

(***************************************************************************)
(* Specifications.                                                         *)
(***************************************************************************)
\* the module-level functions, called directly, under every keyring and a
\* wall clock that runs and is set back
Next ==
  \/ Tick
  \/ StepBack
  \/ GetTimestampMs
  \/ \E r \in ParseBodies : ParseResponse(r)
  \/ \E a \in CoreAnswers : PublicReq(Lit.symbols, PDict(<< >>), a)
  \/ \E path \in { Lit.orders, Lit.balances }, ps \in CallerParams,
        a \in CoreAnswers :
       PrivateReq(path, ps, a)
  \/ \E side \in { Lit.buy, Lit.sell }, cid \in { PNone, PStr(<< "c" >>) },
        a \in CoreAnswers :
       NewOrder(PStr(Lit.btcusd), PInt(2), PInt(7), PStr(side), cid, a)

Spec == Init /\ [][Next]_vars

\* a TradeManager at work, credentials in place
InitTrade == Start({ FullKeyring })

NextTrade ==
  \/ Tick
  \/ \E a \in BuyAnswers : PlaceBuy(PInt(2), PInt(7), a)
  \/ \E a \in SellAnswers : PlaceSell(PInt(2), PInt(7), a)
  \/ \E o \in OrderArgs(tm), a \in OrderAnswers : Cancel(o, a)
  \/ \E a \in CancelAnswers : CancelSession(a)
  \/ \E a \in CancelAnswers : CancelAll(a)
  \/ \E o \in OrderArgs(tm), a \in OrderAnswers : GetOrderStatus(o, a)
  \/ \E a \in ActiveOrdersAnswers : GetActiveOrders(a)

SpecTrade == InitTrade /\ [][NextTrade]_vars

\* a FundManager at work, credentials in place
NextFund ==
  \/ Tick
  \/ \E a \in FundAnswers : GetBalances(a)
  \/ \E amount \in { PInt(1), PDec(1) }, a \in FundAnswers :
       Withdraw(PStr(<< "a", "d" >>), PStr(Lit.btc), amount, a)

SpecFund == InitTrade /\ [][NextFund]_vars

\* the public market-data objects at work
NextPublic ==
  \/ Tick
  \/ \E a \in PublicAnswers : TickerUpdate(a)
  \/ \E ts \in { PNone, PInt(9) }, a \in PublicAnswers :
       TradeHistoryUpdate(ts, a)
  \/ \E a \in PublicAnswers : OrderBookUpdate(a)
  \/ \E a \in PublicAnswers : SymbolsInit(a)

SpecPublic == InitTrade /\ [][NextPublic]_vars

(***************************************************************************)
(* Vocabulary of the properties.                                           *)
(***************************************************************************)
\* the position of every character in the base64 alphabet
B64Index ==
  [c \in { B64Alphabet[i] : i \in 1..64 } |->
     (CHOOSE i \in 1..64 : B64Alphabet[i] = c) - 1]

\* the bytes a base64 text stands for: four characters make three bytes,
\* less one for every "=" that ends the text
B64Decode(cs) ==
  LET groups == Len(cs) \div 4
      padding == IF groups = 0 THEN 0
                 ELSE IF cs[4 * groups - 1] = "=" THEN 2
                 ELSE IF cs[4 * groups] = "=" THEN 1
                 ELSE 0
      index(g, k) == B64Index[cs[4 * g + k]]
      byte(g, p) ==
        CASE p = 0 -> index(g, 1) * 4 + index(g, 2) \div 16
          [] p = 1 -> (index(g, 2) % 16) * 16 + index(g, 3) \div 4
          [] p = 2 -> (index(g, 3) % 4) * 64 + index(g, 4)
  IN [j \in 1..(3 * groups - padding) |->
        byte((j - 1) \div 3, (j - 1) % 3)]

\* the text of a sequence of ASCII bytes
Text(bs) == [i \in 1..Len(bs) |-> Chr(bs[i])]

\* the POST calls of a recorded call
Posts(o) == { o.sent[i] : i \in { j \in 1..Len(o.sent) :
                                    o.sent[j].method = "POST" } }

\* the JSON text a POST carries in its payload header
PayloadText(call) == Text(B64Decode(DictGet(call.headers, Header.PAYLOAD).v))

\* where sub occurs in s
Occurrences(sub, s) ==
  { i \in 0..(Len(s) - Len(sub)) : SubSeq(s, i + 1, i + Len(sub)) = sub }

\* the JSON object text has exactly one member named key, and its value is
\* written valueText
HasMember(text, key, valueText) ==
  LET name == JsonString(key) \o << ":", " " >>
      at == Occurrences(name, text)
      member == name \o valueText
  IN /\ Cardinality(at) = 1
     /\ \A i \in at :
          /\ i > 0
          /\ text[i] \in { "{", " " }
          /\ i + Len(member) < Len(text)
          /\ SubSeq(text, i + 1, i + Len(member)) = member
          /\ text[i + Len(member) + 1] \in { ",", "}" }

\* the last timestamp a recorded call drew
Nonce(o) == o.gens[Len(o.gens)]

\* the calls that go through private_req
PrivateOps ==
  { "private_req", "new_order", "place_buy", "place_sell", "cancel",
    "cancel_session", "cancel_all", "get_order_status", "get_active_orders",
    "get_balances", "withdraw" }

ManagerOps == PrivateOps \ { "private_req", "new_order" }

PublicOps ==
  { "Ticker.update", "TradeHistory.update", "OrderBook.update", "Symbols" }

\* the <<key, order>> pairs an order collection holds
Entries(book) == { book.v[i] : i \in 1..Len(book.v) }

\* the state a TradeManager and a FundManager hold for their client
ClientState ==
  << tm.buy_orders, tm.sell_orders, fm.balances, fm.last_update,
     fm.withdrawals >>

\* the header names the specification gives
X_API_KEY ==
  << "X", "-", "A", "P", "I", "-", "K", "E", "Y" >>

X_API_PAYLOAD ==
  << "X", "-", "A", "P", "I", "-", "P", "A", "Y", "L", "O", "A", "D" >>

X_API_SIGNATURE ==
  << "X", "-", "A", "P", "I", "-", "S", "I", "G", "N", "A", "T", "U", "R",
     "E" >>

V1_PREFIX ==
  << "/", "v", "1", "/" >>

(***************************************************************************)
(* Properties.                                                             *)
(***************************************************************************)
\* C1: a private call made while the keyring lacks the API key or the API
\* secret fails, and no HTTP request is issued before it fails.
C1_MissingCredentialsFailBeforeNetwork ==
  (outcome.op \in PrivateOps /\ DOMAIN keyring # DOMAIN FullKeyring)
    => (~outcome.ok /\ outcome.sent = << >>)

\* C2: of two timestamps drawn one after the other, the second is never
\* lower than the first, however the wall clock behaves in between.
C2_TimestampNeverLower ==
  [][(outcome.gens # << >> /\ outcome'.gens # << >>)
       => outcome'.gens[1] >= Nonce(outcome)]_vars

\* C3: a request signed after another one carries a strictly greater nonce
\* (so no two signed requests carry the same nonce).
C3_NonceStrictlyIncreasing ==
  [][(Posts(outcome) # {} /\ Posts(outcome') # {} /\ outcome' # outcome)
       => Nonce(outcome') > Nonce(outcome)]_vars

\* the decoded value is an object whose result member is "error"
IsErrorEnvelope(x) ==
  /\ x.t = "dict"
  /\ DictHas(x, Lit.result)
  /\ DictGet(x, Lit.result) = PStr(Lit.error)

\* C4: parse_response on a JSON body raises the exchange error
\* (RuntimeError) when the decoded value is an error envelope, with or
\* without reason and message, and returns every other decoded value
\* unchanged.
C4_ParseResponseContract ==
  \A i \in 1..Len(outcome.parsed) :
    LET p == outcome.parsed[i]
    IN p.body.json =>
         IF IsErrorEnvelope(p.body.value)
         THEN ~p.out.ok /\ p.out.err = "RuntimeError"
         ELSE p.out = Ok(p.body.value)

\* the headers of call are exactly the six named, with the fixed values,
\* the keyring's API key, a base64 payload and the signature of that
\* payload under the keyring's API secret
SixHeaders(call, keyName, payloadName, signatureName) ==
  LET h == call.headers
      names == { h.v[i][1] : i \in 1..Len(h.v) }
      key == << KEYRING_NAMESPACE, KEYRING_API_KEY >>
      secret == << KEYRING_NAMESPACE, KEYRING_API_SECRET >>
  IN /\ Len(h.v) = 6
     /\ names = { Header.Content_Type, Header.Content_Length, keyName,
                  payloadName, signatureName, Header.Cache_Control }
     /\ DictGet(h, Header.Content_Type) = PStr(Lit.text_plain)
     /\ DictGet(h, Header.Content_Length) = PStr(<< "0" >>)
     /\ DictGet(h, Header.Cache_Control) = PStr(Lit.no_cache)
     /\ DictGet(h, keyName) =
          (IF key \in DOMAIN keyring THEN PStr(keyring[key]) ELSE PNone)
     /\ LET payload == DictGet(h, payloadName).v
            text == Text(B64Decode(payload))
        IN /\ B64Encode(B64Decode(payload)) = payload
           /\ Len(text) >= 2 /\ text[1] = "{" /\ text[Len(text)] = "}"
           /\ secret \in DOMAIN keyring
           /\ DictGet(h, signatureName).v =
                << "hmac-sha384-hex", Utf8(keyring[secret]), payload >>

\* C5, as stated: every private POST carries exactly the headers
\* Content-Type, Content-Length, X-API-KEY, X-API-PAYLOAD, X-API-SIGNATURE
\* and Cache-Control, with their values.
C5_HeadersAsSpecified ==
  \A call \in Posts(outcome) :
    SixHeaders(call, X_API_KEY, X_API_PAYLOAD, X_API_SIGNATURE)

\* C5, amended: every private POST is given exactly the headers
\* Content-Type, Content-Length, X-GEMINI-APIKEY, X-GEMINI-PAYLOAD,
\* X-GEMINI-SIGNATURE and Cache-Control, with Content-Type text/plain,
\* Content-Length 0, Cache-Control no-cache, the key header holding what the
\* keyring returned for the API key, the payload header the base64 payload
\* and the signature header the HMAC of that payload under the API secret.
C5_GeminiHeaders ==
  \A call \in Posts(outcome) :
    SixHeaders(call, Header.APIKEY, Header.PAYLOAD, Header.SIGNATURE)

\* a POST went out under a keyring that holds both credentials
C5_Witness ==
  /\ outcome.op \in { "private_req", "new_order" }
  /\ Posts(outcome) # {}
  /\ DOMAIN keyring = DOMAIN FullKeyring

\* C6: a private operation of TradeManager or FundManager that raises leaves
\* buy_orders, sell_orders, balances, last_update and withdrawals as they
\* were before the call.
C6_NoPartialFailure ==
  [][(outcome'.op \in ManagerOps /\ ~outcome'.ok)
       => ClientState' = ClientState]_vars

\* C7: the payload of every private POST is a JSON object with one member
\* request and one member nonce; nonce is the timestamp drawn for this call
\* and request is the versioned path, which is also the path of the URL the
\* POST goes to, whatever the caller's parameters held.
C7_PayloadCarriesRequestAndNonce ==
  \A call \in Posts(outcome) :
    LET text == PayloadText(call)
        path == SubSeq(call.url, Len(BASE_URL) + 1, Len(call.url))
    IN /\ SubSeq(call.url, 1, Len(BASE_URL)) = BASE_URL
       /\ SubSeq(path, 1, Len(V1_PREFIX)) = V1_PREFIX
       /\ outcome.op = "private_req"
            => path = V1_PREFIX \o outcome.args[1].v
       /\ HasMember(text, Lit.request, JsonString(path))
       /\ HasMember(text, Lit.nonce, IntToStr(Nonce(outcome)))

\* a POST went out for a caller whose parameters already held entries named
\* request and nonce
C7_Witness ==
  /\ outcome.op = "private_req"
  /\ Posts(outcome) # {}
  /\ DictHas(outcome.args[2], Lit.nonce)
  /\ DictHas(outcome.args[2], Lit.request)

\* C8: every public wrapper issues one GET below BASE_URL/v1/ and hands the
\* response to parse_response; none fails before the GET.
C8_PublicWrappersReachTransport ==
  outcome.op \in PublicOps =>
    /\ Len(outcome.sent) = 1
    /\ outcome.sent[1].method = "GET"
    /\ SubSeq(outcome.sent[1].url, 1, Len(BASE_URL \o V1_PREFIX))
         = BASE_URL \o V1_PREFIX

\* C9: buy_orders and sell_orders are always collections keyed by order id.
C9_OrderCollectionsKeyedById ==
  tm.buy_orders.t = "dict" /\ tm.sell_orders.t = "dict"

\* the order of entry e has the given side and the manager's symbol
OrderMatches(e, side) ==
  e[2].side = PStr(side) /\ e[2].symbol = tm.symbol

\* C10: every order in buy_orders is a buy, every order in
\* sell_orders a sell, each has the manager's symbol and each is stored
\* under its own order id.
C10_StoredOrdersMatch ==
  /\ \A e \in Entries(tm.buy_orders) :
       OrderMatches(e, Lit.buy) /\ e[1] = e[2].id
  /\ \A e \in Entries(tm.sell_orders) :
       OrderMatches(e, Lit.sell) /\ e[1] = e[2].id

====
